---- MODULE Spec2Model ----
(***************************************************************************)
(* The generated stub layer of giautm/weaver: the local, client and server *)
(* stubs of productcatalogservice.T (weaver_gen.go) and currencyservice.T  *)
(* (part_001), over the wire codec of runtime/codegen; and the cached      *)
(* account histories of transactionhistory.impl (part_000).                *)
(*                                                                         *)
(* Bytes are naturals 0..255 and a buffer is a sequence of bytes.  A Go    *)
(* string is the sequence of its bytes.  A Go slice is a record            *)
(* [nil, elems], so that a nil slice and an empty slice differ.  A Go      *)
(* error is the set of the errors found by unwrapping it (errors.Is looks  *)
(* for a member); the nil error is the empty set.                          *)
(***************************************************************************)
EXTENDS Integers, Sequences, FiniteSets, Bags, TLC

\* ------------------------------------------------------------------ bounds

\* Calls started through the stubs in one behaviour.
MaxCalls == 2
\* Calls that may be in flight at the same time.
MaxInFlight == 2
\* Dispatches handled by the server stubs in one behaviour.
MaxDispatch == 1
\* Elements of a sequence handed to the codec.
MaxSliceLen == 2
\* The largest history_limit of the configuration.
MaxHistoryLimit == 2
\* Transactions in a history as the cache loads it.
MaxLoaded == 1
\* Transactions handed to ProcessTransaction in one behaviour.
MaxProcessed == 2

\* ------------------------------------------------------------------ errors

Nil == {}

ErrAtom(k, m) == [kind |-> k, msg |-> m]

\* weaver.RemoteCallError, the sentinel joined to every transport failure.
RemoteCallError == {ErrAtom("RemoteCallError", <<>>)}

\* errors.Join(a, b): an error that unwraps to a and to b.
errors_Join(a, b) == a \cup b

\* errors.Is(err, target) for a target that is a single error.
errors_Is(err, target) == target # Nil /\ target \subseteq err

\* What the transport may return as its error; the last two are what a
\* canceled or expired call context makes it return.
ConnRefused == {ErrAtom("transport", <<114>>)}
CtxCanceled == {ErrAtom("transport", <<99>>)}
CtxDeadline == {ErrAtom("transport", <<100>>)}
TransportErrors == {ConnRefused, CtxCanceled, CtxDeadline}

\* An application error is known by its message alone.
AppError(m) == {ErrAtom("app", m)}
\* err.Error() of an error made of one error.
ErrorMsg(e) == (CHOOSE a \in e : TRUE).msg

\* A runtime fault (a Go panic) in flight, or none.
NoPanic == [kind |-> "none", msg |-> <<>>]
Panic(k) == [kind |-> k, msg |-> <<>>]

\* The faults the encoder and the decoder raise.
CodecFaults == {"encode", "decode"}

\* codegen.CatchPanics(recover()) raises the fault again unless it is one of
\* the encoder's or the decoder's.
Reraised(r) == r # NoPanic /\ r.kind \notin CodecFaults

\* What it returns otherwise: nil when nothing panicked, or the fault as an
\* error.
CatchPanics(r) == IF r = NoPanic THEN Nil ELSE {ErrAtom(r.kind, r.msg)}

\* ------------------------------------------------------------------ values

Slice(s) == [nil |-> FALSE, elems |-> s]
NilSlice == [nil |-> TRUE, elems |-> <<>>]

Money(c, u, n) == [CurrencyCode |-> c, Units |-> u, Nanos |-> n]
ZeroMoney == Money(<<>>, 0, 0)

ZeroProduct ==
    [ID |-> <<>>, Name |-> <<>>, Description |-> <<>>, Picture |-> <<>>,
     PriceUSD |-> ZeroMoney, Categories |-> NilSlice]

\* ------------------------------------------------------------------ encoder

RECURSIVE LE(_, _)
\* The w little-endian bytes of the integer n, in two's complement (\div
\* rounds down and % is never negative, so -1 gives 255, 255, ...).
LE(n, w) == IF w = 0 THEN <<>> ELSE <<n % 256>> \o LE(n \div 256, w - 1)

RECURSIVE FromLE(_)
\* The signed integer of the little-endian bytes b (b is not empty).
FromLE(b) ==
    IF Len(b) = 1 THEN (IF b[1] >= 128 THEN b[1] - 256 ELSE b[1])
    ELSE Head(b) + 256 * FromLE(Tail(b))

Encoder_Int32(n) == LE(n, 4)
Encoder_Int64(n) == LE(n, 8)
Encoder_Len(n) == Encoder_Int32(n)
Encoder_String(s) == LE(Len(s), 4) \o s
Encoder_Bool(b) == IF b THEN <<1>> ELSE <<0>>

\* enc.Error(err): a presence byte, then the message when present.
Encoder_Error(e) ==
    IF e = Nil THEN Encoder_Bool(FALSE)
    ELSE Encoder_Bool(TRUE) \o Encoder_String(ErrorMsg(e))

\* money.T.WeaverMarshal: the fields in their declared order.
Money_WeaverMarshal(x) ==
    Encoder_String(x.CurrencyCode) \o Encoder_Int64(x.Units) \o Encoder_Int32(x.Nanos)

RECURSIVE EncStrings(_)
\* The loop of serviceweaver_enc_slice_string: enc.String(arg[i]) for each i.
EncStrings(s) == IF s = <<>> THEN <<>> ELSE Encoder_String(Head(s)) \o EncStrings(Tail(s))

serviceweaver_enc_slice_string_4af10117(arg) ==
    IF arg.nil THEN Encoder_Len(-1)
    ELSE Encoder_Len(Len(arg.elems)) \o EncStrings(arg.elems)

Product_WeaverMarshal(x) ==
    Encoder_String(x.ID) \o Encoder_String(x.Name) \o Encoder_String(x.Description)
        \o Encoder_String(x.Picture) \o Money_WeaverMarshal(x.PriceUSD)
        \o serviceweaver_enc_slice_string_4af10117(x.Categories)

RECURSIVE EncProducts(_)
\* The loop of serviceweaver_enc_slice_Product: (arg[i]).WeaverMarshal(enc).
EncProducts(s) ==
    IF s = <<>> THEN <<>> ELSE Product_WeaverMarshal(Head(s)) \o EncProducts(Tail(s))

serviceweaver_enc_slice_Product_3e9d9e07(arg) ==
    IF arg.nil THEN Encoder_Len(-1)
    ELSE Encoder_Len(Len(arg.elems)) \o EncProducts(arg.elems)

\* ------------------------------------------------------------------ decoder

\* A read of the decoder: the value read and the bytes left, or a fault (the
\* read found too few bytes or a header no encoder writes).  A faulting read
\* raises a runtime fault in the stub that made it, so nothing follows it.
Read(v, r) == [fault |-> FALSE, val |-> v, rest |-> r]
Fault(v) == [fault |-> TRUE, val |-> v, rest |-> <<>>]

Drop(b, n) == SubSeq(b, n + 1, Len(b))

Decoder_Int32(b) ==
    IF Len(b) < 4 THEN Fault(0) ELSE Read(FromLE(SubSeq(b, 1, 4)), Drop(b, 4))

Decoder_Int64(b) ==
    IF Len(b) < 8 THEN Fault(0) ELSE Read(FromLE(SubSeq(b, 1, 8)), Drop(b, 8))

\* dec.Len(): a length, or -1 for a nil sequence; nothing below -1.
Decoder_Len(b) ==
    LET n == Decoder_Int32(b)
    IN  IF n.fault \/ n.val < -1 THEN Fault(0) ELSE n

\* dec.String(): the length is unsigned, so a header with the top bit set
\* asks for more bytes than any buffer holds.
Decoder_String(b) ==
    LET n == Decoder_Int32(b)
    IN  IF n.fault \/ n.val < 0 \/ Len(n.rest) < n.val THEN Fault(<<>>)
        ELSE Read(SubSeq(n.rest, 1, n.val), Drop(n.rest, n.val))

Decoder_Bool(b) ==
    IF b = <<>> \/ Head(b) > 1 THEN Fault(FALSE) ELSE Read(Head(b) = 1, Tail(b))

\* dec.Error(): the trailing error slot of a reply.
Decoder_Error(b) ==
    LET p == Decoder_Bool(b)
    IN  IF p.fault THEN Fault(Nil)
        ELSE IF ~p.val THEN Read(Nil, p.rest)
        ELSE LET m == Decoder_String(p.rest)
             IN  IF m.fault THEN Fault(Nil) ELSE Read(AppError(m.val), m.rest)

\* money.T.WeaverUnmarshal into x: the fields read before a fault stay set.
\* Each step takes the value so far and what the read of its field gave.
Money_WeaverUnmarshal(x, b) ==
    LET Nanos(x2, n) ==
            IF n.fault THEN Fault(x2) ELSE Read([x2 EXCEPT !.Nanos = n.val], n.rest)
        Units(x1, u) ==
            IF u.fault THEN Fault(x1)
            ELSE Nanos([x1 EXCEPT !.Units = u.val], Decoder_Int32(u.rest))
        CurrencyCode(x0, c) ==
            IF c.fault THEN Fault(x0)
            ELSE Units([x0 EXCEPT !.CurrencyCode = c.val], Decoder_Int64(c.rest))
    IN  CurrencyCode(x, Decoder_String(b))

RECURSIVE DecStrings(_, _, _)
\* The loop of serviceweaver_dec_slice_string: res[i] = dec.String().
DecStrings(b, n, res) ==
    IF n = 0 THEN Read(Slice(res), b)
    ELSE LET e == Decoder_String(b)
         IN  IF e.fault THEN Fault(NilSlice)
             ELSE DecStrings(e.rest, n - 1, Append(res, e.val))

\* The same with the length header -1 read as a length of zero.
dec_slice_string_NilAsEmpty(b) ==
    LET n == Decoder_Len(b)
    IN  IF n.fault THEN Fault(NilSlice)
        ELSE DecStrings(n.rest, IF n.val = -1 THEN 0 ELSE n.val, <<>>)

\* A faulting read leaves the function by the fault: nothing is returned.
serviceweaver_dec_slice_string_4af10117(b) ==
    LET n == Decoder_Len(b)
    IN  IF n.fault THEN Fault(NilSlice)
        ELSE IF n.val = -1 THEN Read(NilSlice, n.rest)
        ELSE DecStrings(n.rest, n.val, <<>>)

\* Product.WeaverUnmarshal into x: the fields read before a fault stay set.
\* Each step takes the value so far and what the read of its field gave.
Product_WeaverUnmarshal(x, b) ==
    LET Categories(x5, cs) ==
            IF cs.fault THEN Fault(x5)
            ELSE Read([x5 EXCEPT !.Categories = cs.val], cs.rest)
        PriceUSD(x4, pr) ==
            IF pr.fault THEN Fault([x4 EXCEPT !.PriceUSD = pr.val])
            ELSE Categories([x4 EXCEPT !.PriceUSD = pr.val],
                            serviceweaver_dec_slice_string_4af10117(pr.rest))
        Picture(x3, pic) ==
            IF pic.fault THEN Fault(x3)
            ELSE PriceUSD([x3 EXCEPT !.Picture = pic.val],
                          Money_WeaverUnmarshal(x3.PriceUSD, pic.rest))
        Description(x2, d) ==
            IF d.fault THEN Fault(x2)
            ELSE Picture([x2 EXCEPT !.Description = d.val], Decoder_String(d.rest))
        Name(x1, nm) ==
            IF nm.fault THEN Fault(x1)
            ELSE Description([x1 EXCEPT !.Name = nm.val], Decoder_String(nm.rest))
        ID(x0, i) ==
            IF i.fault THEN Fault(x0)
            ELSE Name([x0 EXCEPT !.ID = i.val], Decoder_String(i.rest))
    IN  ID(x, Decoder_String(b))

RECURSIVE DecProducts(_, _, _)
\* The loop of serviceweaver_dec_slice_Product: (&res[i]).WeaverUnmarshal(dec).
DecProducts(b, n, res) ==
    LET Element(e) ==
            IF e.fault THEN Fault(NilSlice)
            ELSE DecProducts(e.rest, n - 1, Append(res, e.val))
    IN  IF n = 0 THEN Read(Slice(res), b)
        ELSE Element(Product_WeaverUnmarshal(ZeroProduct, b))

serviceweaver_dec_slice_Product_3e9d9e07(b) ==
    LET n == Decoder_Len(b)
    IN  IF n.fault THEN Fault(NilSlice)
        ELSE IF n.val = -1 THEN Read(NilSlice, n.rest)
        ELSE DecProducts(n.rest, n.val, <<>>)

\* ------------------------------------------------------------------ interfaces

ProductCatalog == "productcatalogservice.T"
Currency == "currencyservice.T"
Interfaces == {ProductCatalog, Currency}

\* The methods of each interface, in the order of its method list.
MethodList(i) ==
    IF i = ProductCatalog THEN <<"GetProduct", "ListProducts", "SearchProducts">>
    ELSE <<"Convert", "GetSupportedCurrencies">>

Range(f) == {f[x] : x \in DOMAIN f}
Methods == UNION {Range(MethodList(i)) : i \in Interfaces}
InterfaceOf(m) == CHOOSE i \in Interfaces : m \in Range(MethodList(i))

\* The methods that take arguments besides the context.
HasArgs(m) == m \in {"GetProduct", "SearchProducts", "Convert"}

\* The zero value of a method's result type (the named result r0 at entry).
ZeroResult(m) ==
    CASE m = "GetProduct" -> ZeroProduct
      [] m = "Convert" -> ZeroMoney
      [] OTHER -> NilSlice

\* "Encode arguments." of each client stub method.
EncodeArgs(m, args) ==
    CASE m = "Convert" -> Money_WeaverMarshal(args[1]) \o Encoder_String(args[2])
      [] m \in {"GetProduct", "SearchProducts"} -> Encoder_String(args[1])
      [] OTHER -> <<>>

\* "Decode the results." of each client stub method, into r0: a slice is
\* assigned to r0 once its decoding function has returned.
DecodeResult(m, r0, b) ==
    LET Assign(d) == IF d.fault THEN Fault(r0) ELSE d
    IN  CASE m = "GetProduct" -> Product_WeaverUnmarshal(r0, b)
          [] m = "Convert" -> Money_WeaverUnmarshal(r0, b)
          [] m = "GetSupportedCurrencies" ->
                Assign(serviceweaver_dec_slice_string_4af10117(b))
          [] OTHER -> Assign(serviceweaver_dec_slice_Product_3e9d9e07(b))

\* "Encode the results." of each server stub handler.
EncodeResult(m, r) ==
    CASE m = "GetProduct" -> Product_WeaverMarshal(r)
      [] m = "Convert" -> Money_WeaverMarshal(r)
      [] m = "GetSupportedCurrencies" -> serviceweaver_enc_slice_string_4af10117(r)
      [] OTHER -> serviceweaver_enc_slice_Product_3e9d9e07(r)

\* "Decode arguments." of each server stub handler: the argument tuple.
DecodeArgs(m, b) ==
    LET One(a0) == IF a0.fault THEN Fault(<<>>) ELSE Read(<<a0.val>>, a0.rest)
        Second(v0, a1) == IF a1.fault THEN Fault(<<>>) ELSE Read(<<v0, a1.val>>, a1.rest)
        First(a0) == IF a0.fault THEN Fault(<<>>) ELSE Second(a0.val, Decoder_String(a0.rest))
    IN  CASE m = "Convert" -> First(Money_WeaverUnmarshal(ZeroMoney, b))
          [] m \in {"GetProduct", "SearchProducts"} -> One(Decoder_String(b))
          [] OTHER -> Read(<<>>, b)

\* ------------------------------------------------------------------ instruments

\* One call on an instrument: a counter's Add, a distribution's Put, or an
\* operation on the span variable of the call; or one call of stub.Run.
Ev(o, x) == [op |-> o, v |-> x]

\* codegen.MethodMetrics of one method.  A distribution is kept as the number
\* of samples put into it; the sample itself is in the event.
NoMetrics ==
    [Count |-> 0, ErrorCount |-> 0, Latency |-> 0, BytesRequest |-> 0, BytesReply |-> 0]

\* The same with counters that add to the value they held when the stub was
\* made, so that an increment made meanwhile is lost.
Apply_LostUpdate(mm, e) ==
    CASE e.op = "Count.Add" -> [mm EXCEPT !.Count = NoMetrics.Count + e.v]
      [] e.op = "ErrorCount.Add" -> [mm EXCEPT !.ErrorCount = NoMetrics.ErrorCount + e.v]
      [] e.op = "Latency.Put" -> [mm EXCEPT !.Latency = @ + 1]
      [] e.op = "BytesRequest.Put" -> [mm EXCEPT !.BytesRequest = @ + 1]
      [] e.op = "BytesReply.Put" -> [mm EXCEPT !.BytesReply = @ + 1]
      [] OTHER -> mm

Apply(mm, e) ==
    CASE e.op = "Count.Add" -> [mm EXCEPT !.Count = @ + e.v]
      [] e.op = "ErrorCount.Add" -> [mm EXCEPT !.ErrorCount = @ + e.v]
      [] e.op = "Latency.Put" -> [mm EXCEPT !.Latency = @ + 1]
      [] e.op = "BytesRequest.Put" -> [mm EXCEPT !.BytesRequest = @ + 1]
      [] e.op = "BytesReply.Put" -> [mm EXCEPT !.BytesReply = @ + 1]
      [] OTHER -> mm

RECURSIVE ApplyOps(_, _)
ApplyOps(mm, ops) == IF ops = <<>> THEN mm ELSE ApplyOps(Apply(mm, Head(ops)), Tail(ops))

\* ------------------------------------------------------------------ stubs

\* The same ordinal for every method.
Ordinal_AllZero(m) == 0

\* The method ordinal each client stub method hands to stub.Run.
Ordinal(m) ==
    CASE m = "GetProduct" -> 0
      [] m = "ListProducts" -> 1
      [] m = "SearchProducts" -> 2
      [] m = "Convert" -> 0
      [] OTHER -> 1

\* One call through a stub: where it stands (pc), what it was called with,
\* the span its span variable holds ("child": the span it started, "ctx":
\* the span found in the context), the calls it made on its instruments and
\* on the transport in order (ops), what it handed the transport at each
\* invocation (run), its calls of the implementation
\* (impl), its named results r0 and err, the error it marked the span with
\* (status), the fault that leaves it, if any (panic), and what stub.Run
\* gave it (got).
NoCall ==
    [pc |-> "idle", stub |-> "none", method |-> "none", args |-> <<>>, traced |-> FALSE,
     span |-> "ctx", ops |-> <<>>, run |-> <<>>, impl |-> <<>>, r0 |-> NilSlice,
     err |-> Nil, status |-> Nil, panic |-> NoPanic,
     got |-> [kind |-> "none", err |-> Nil, reply |-> <<>>, class |-> "none"]]

\* The same with the span ended before it is marked.
LocalDeferred_EndsFirst(f, r) ==
    [f EXCEPT !.ops = @ \o (IF f.traced
                            THEN <<Ev("span.End", 0)>> \o
                                 (IF f.err # Nil
                                  THEN <<Ev("span.RecordError", 0), Ev("span.SetStatus", 0)>>
                                  ELSE <<>>)
                            ELSE <<>>),
              !.status = IF f.traced THEN f.err ELSE Nil,
              !.pc = IF r = NoPanic THEN "returned" ELSE "panicked",
              !.panic = r]

\* The deferred function of a local stub method, which is installed only
\* under a valid parent trace; r is the fault in flight or NoPanic.  It does
\* not recover: a fault goes on to the caller.
LocalDeferred(f, r) ==
    [f EXCEPT !.ops = @ \o (IF f.traced
                            THEN (IF f.err # Nil
                                  THEN <<Ev("span.RecordError", 0), Ev("span.SetStatus", 0)>>
                                  ELSE <<>>) \o <<Ev("span.End", 0)>>
                            ELSE <<>>),
              !.status = IF f.traced THEN f.err ELSE Nil,
              !.pc = IF r = NoPanic THEN "returned" ELSE "panicked",
              !.panic = r]

\* The same counting the call as a client stub does.
LocalStub_Metered(m, args, traced, out) ==
    LET f == [NoCall EXCEPT !.stub = "local", !.method = m, !.args = args,
                            !.traced = traced,
                            !.span = IF traced THEN "child" ELSE "ctx",
                            !.ops = <<Ev("Count.Add", 1)>>
                                       \o (IF traced THEN <<Ev("span.Start", 0)>> ELSE <<>>),
                            !.impl = <<args>>, !.r0 = ZeroResult(m)]
    IN  IF out.kind = "panic" THEN LocalDeferred(f, Panic("impl"))
        ELSE LocalDeferred([f EXCEPT !.r0 = out.r, !.err = out.err], NoPanic)

\* A local stub method: out is what the implementation does with the call.
LocalStub(m, args, traced, out) ==
    LET f == [NoCall EXCEPT !.stub = "local", !.method = m, !.args = args,
                            !.traced = traced,
                            !.span = IF traced THEN "child" ELSE "ctx",
                            !.ops = IF traced THEN <<Ev("span.Start", 0)>> ELSE <<>>,
                            !.impl = <<args>>, !.r0 = ZeroResult(m)]
    IN  IF out.kind = "panic" THEN LocalDeferred(f, Panic("impl"))
        ELSE LocalDeferred([f EXCEPT !.r0 = out.r, !.err = out.err], NoPanic)

\* A client stub method up to its deferred function: the invocation counter,
\* then the child span under a valid parent trace.
ClientEntry(m, args, traced) ==
    [NoCall EXCEPT !.pc = "running", !.stub = "client", !.method = m, !.args = args,
                   !.traced = traced,
                   !.span = IF traced THEN "child" ELSE "ctx",
                   !.ops = <<Ev("Count.Add", 1)>>
                              \o (IF traced THEN <<Ev("span.Start", 0)>> ELSE <<>>),
                   !.r0 = ZeroResult(m)]

\* The first step of the deferred function of a client stub method: with a
\* nil err it calls recover() and joins what CatchPanics makes of the fault to
\* RemoteCallError; r is the fault in flight or NoPanic.
ClientRecover_Bare(err, r) == IF err = Nil THEN CatchPanics(r) ELSE err

ClientRecover(err, r) ==
    IF err # Nil THEN err
    ELSE IF CatchPanics(r) # Nil THEN errors_Join(RemoteCallError, CatchPanics(r))
    ELSE Nil

\* Its second step, on the span variable and the error counter.
ClientErrorMarks_NoCount(err) ==
    IF err # Nil THEN <<Ev("span.RecordError", 0), Ev("span.SetStatus", 0)>> ELSE <<>>

ClientErrorMarks(err) ==
    IF err # Nil
    THEN <<Ev("span.RecordError", 0), Ev("span.SetStatus", 0), Ev("ErrorCount.Add", 1)>>
    ELSE <<>>

\* Its last step: the span is ended and the latency put.
ClientFinish_LeakOnError(err) ==
    IF err # Nil THEN <<Ev("Latency.Put", 0)>> ELSE <<Ev("span.End", 0), Ev("Latency.Put", 0)>>

\* The same with the latency put before the span is ended.
ClientFinish_LatencyFirst(err) == <<Ev("Latency.Put", 0), Ev("span.End", 0)>>

ClientFinish(err) == <<Ev("span.End", 0), Ev("Latency.Put", 0)>>

\* The same without the call of recover().
ClientDeferred_NoRecover(f, r) ==
    [f EXCEPT !.ops = @ \o ClientErrorMarks(f.err) \o ClientFinish(f.err),
              !.status = f.err,
              !.pc = IF r = NoPanic THEN "returned" ELSE "panicked",
              !.panic = r]

\* The deferred function of a client stub method; r is the fault in flight or
\* NoPanic.  recover() is called only when err is nil, so a fault in flight
\* with a non-nil err goes on to the caller; a fault CatchPanics raises again
\* leaves the deferred function at once, before its other steps.
ClientDeferred(f, r) ==
    LET err == ClientRecover(f.err, r)
        left == IF f.err = Nil THEN NoPanic ELSE r
    IN  IF f.err = Nil /\ Reraised(r)
        THEN [f EXCEPT !.pc = "panicked", !.panic = r]
        ELSE [f EXCEPT !.err = err,
                       !.ops = @ \o ClientErrorMarks(err) \o ClientFinish(err),
                       !.status = err,
                       !.pc = IF left = NoPanic THEN "returned" ELSE "panicked",
                       !.panic = left]

\* A client stub method from its entry to stub.Run: the arguments are encoded
\* (encFaults: the encoder raises a fault on them), the request size is put
\* and the transport is invoked.  A method without arguments passes nil.
ClientInvoke(f, encFaults) ==
    IF encFaults THEN ClientDeferred(f, Panic("encode"))
    ELSE LET data == IF HasArgs(f.method) THEN Slice(EncodeArgs(f.method, f.args))
                     ELSE NilSlice
         IN  [f EXCEPT !.ops = @ \o <<Ev("BytesRequest.Put", Len(data.elems)),
                                      Ev("stub.Run", Ordinal(f.method))>>,
                       !.run = @ \o <<[ordinal |-> Ordinal(f.method), args |-> data,
                                       shardKey |-> 0]>>,
                       !.pc = "inflight"]

\* The error of a client stub call whose stub.Run returned the error e.
TransportFailure_Bare(e) == e

TransportFailure(e) == errors_Join(RemoteCallError, e)

\* The reply size is put once stub.Run has returned without an error.
ReplyMarks_None(reply) == <<>>

ReplyMarks(reply) == <<Ev("BytesReply.Put", Len(reply))>>

\* err = dec.Error(), on the bytes b left after the result.
ReadErrorSlot_Skip(b) == Read(Nil, b)

ReadErrorSlot(b) == Decoder_Error(b)

\* The end of a client stub method: e is what dec.Error() read.
ClientReturn(f, e) ==
    IF e.fault THEN ClientDeferred(f, Panic("decode"))
    ELSE ClientDeferred([f EXCEPT !.err = e.val], NoPanic)

\* "Decode the results." of a client stub method: d is what decoding the
\* result read, into r0.
ClientDecode(f, d) ==
    IF d.fault THEN ClientDeferred([f EXCEPT !.r0 = d.val], Panic("decode"))
    ELSE ClientReturn([f EXCEPT !.r0 = d.val], ReadErrorSlot(d.rest))

\* The same with a second invocation of the transport after a failed one.
ClientResume_Retries(f, out) ==
    IF out.kind = "panic" THEN ClientDeferred(f, Panic("rpc"))
    ELSE IF out.err # Nil
    THEN ClientDeferred([f EXCEPT !.err = TransportFailure(out.err),
                                  !.run = @ \o @,
                                  !.ops = @ \o <<Ev("stub.Run", Ordinal(f.method))>>],
                        NoPanic)
    ELSE ClientDecode([f EXCEPT !.ops = @ \o ReplyMarks(out.reply)],
                      DecodeResult(f.method, f.r0, out.reply))

\* A client stub method from the return of stub.Run to its own return.
ClientResume(f, out) ==
    IF out.kind = "panic" THEN ClientDeferred(f, Panic("rpc"))
    ELSE IF out.err # Nil
    THEN ClientDeferred([f EXCEPT !.err = TransportFailure(out.err)], NoPanic)
    ELSE ClientDecode([f EXCEPT !.ops = @ \o ReplyMarks(out.reply)],
                      DecodeResult(f.method, f.r0, out.reply))

GetStubFn_FirstByDefault(i, method) ==
    IF i = ProductCatalog
    THEN CASE method = "ListProducts" -> "ListProducts"
           [] method = "SearchProducts" -> "SearchProducts"
           [] OTHER -> "GetProduct"
    ELSE CASE method = "GetSupportedCurrencies" -> "GetSupportedCurrencies"
           [] OTHER -> "Convert"

\* t_server_stub.GetStubFn of interface i: the handler of the method, or "nil".
GetStubFn(i, method) ==
    IF i = ProductCatalog
    THEN CASE method = "GetProduct" -> "GetProduct"
           [] method = "ListProducts" -> "ListProducts"
           [] method = "SearchProducts" -> "SearchProducts"
           [] OTHER -> "nil"
    ELSE CASE method = "Convert" -> "Convert"
           [] method = "GetSupportedCurrencies" -> "GetSupportedCurrencies"
           [] OTHER -> "nil"

\* The deferred function of a server stub handler, r being the fault in
\* flight or NoPanic: the error the handler returns and the fault that leaves
\* it, if any.
ServerDeferred_Swallows(err, r) ==
    [err |-> IF err # Nil THEN err
             ELSE IF r = NoPanic THEN Nil ELSE {ErrAtom(r.kind, r.msg)},
     panic |-> NoPanic]

ServerDeferred(err, r) ==
    IF err # Nil THEN [err |-> err, panic |-> r]
    ELSE IF Reraised(r) THEN [err |-> Nil, panic |-> r]
    ELSE [err |-> CatchPanics(r), panic |-> NoPanic]

\* What a server stub handler did: its reply bytes (nil when it returns by a
\* fault), the argument tuples it called the implementation with, and from
\* its deferred function d the error it returns and the fault that leaves it.
Handled(res, d, impl) == [res |-> res, err |-> d.err, impl |-> impl, panic |-> d.panic]

\* The same with the error slot always written as absent.
ServerCall_NoErrorInBand(m, a, out, encFaults) ==
    Handled(Slice(EncodeResult(m, out.r) \o Encoder_Error(Nil)),
            ServerDeferred(Nil, NoPanic), <<a>>)

\* The same with the application error returned as the handler's own too.
ServerCall_ErrorOutOfBand(m, a, out, encFaults) ==
    Handled(Slice(EncodeResult(m, out.r) \o Encoder_Error(out.err)),
            ServerDeferred(out.err, NoPanic), <<a>>)

\* A handler from its call of the implementation on: a is the argument tuple.
ServerCall(m, a, out, encFaults) ==
    IF out.kind = "panic"
    THEN Handled(NilSlice, ServerDeferred(Nil, Panic("impl")), <<a>>)
    ELSE IF encFaults
    THEN Handled(NilSlice, ServerDeferred(Nil, Panic("encode")), <<a>>)
    ELSE Handled(Slice(EncodeResult(m, out.r) \o Encoder_Error(out.err)),
                 ServerDeferred(Nil, NoPanic), <<a>>)

ServerHandler_GoesOn(m, args, out, encFaults) ==
    ServerCall(m, DecodeArgs(m, args).val, out, encFaults)

\* The handler of method m given the argument bytes; out is what the
\* implementation does with the call and encFaults whether the encoder raises
\* a fault on the result.  The deferred function covers the whole body.
ServerHandler(m, args, out, encFaults) ==
    LET a == DecodeArgs(m, args)
    IN  IF a.fault
        THEN Handled(NilSlice, ServerDeferred(Nil, Panic("decode")), <<>>)
        ELSE ServerCall(m, a.val, out, encFaults)

\* ------------------------------------------------------------------ inputs

Strings == {<<>>, <<97>>}
Moneys == {ZeroMoney, Money(<<85>>, 5, -1)}

Product1 ==
    [ID |-> <<97>>, Name |-> <<98>>, Description |-> <<>>, Picture |-> <<99>>,
     PriceUSD |-> Money(<<85>>, 5, -1), Categories |-> Slice(<< <<97>>, <<98, 98>> >>)]

\* The argument tuples whose encodings a server stub handler is handed.
ArgTuples(m) ==
    CASE m = "Convert" -> {<<a0, <<97>> >> : a0 \in Moneys}
      [] m \in {"GetProduct", "SearchProducts"} -> {<<a0>> : a0 \in Strings}
      [] OTHER -> {<<>>}

\* The argument tuple a stub method is called with: one for each method.
CallArgs(m) ==
    CASE m = "Convert" -> {<<Money(<<85>>, 5, -1), <<97>> >>}
      [] m \in {"GetProduct", "SearchProducts"} -> {<< <<97>> >>}
      [] OTHER -> {<<>>}

\* The results an implementation returns.
Results(m) ==
    CASE m = "GetProduct" -> {ZeroProduct, Product1}
      [] m = "Convert" -> Moneys
      [] m = "GetSupportedCurrencies" ->
            {NilSlice, Slice(<<>>), Slice(<< <<97>>, <<98, 98>> >>)}
      [] OTHER -> {NilSlice, Slice(<<>>), Slice(<<Product1>>)}

\* The result with the longest encoding, whose cuts fall in every field.
Richest(m) ==
    CASE m = "GetProduct" -> {Product1}
      [] m = "Convert" -> {Money(<<85>>, 5, -1)}
      [] m = "GetSupportedCurrencies" -> {Slice(<< <<97>>, <<98, 98>> >>)}
      [] OTHER -> {Slice(<<Product1>>)}

AppErrors == {Nil, AppError(<<101>>)}

\* What an implementation does with a call: it returns a result and an
\* application error, or it raises a runtime fault.
ImplOutcomes(m) ==
    {[kind |-> "return", r |-> r, err |-> e] : r \in Results(m), e \in AppErrors}
        \cup {[kind |-> "panic", r |-> ZeroResult(m), err |-> Nil]}

\* The errors an implementation returns when its caller and it are far apart:
\* besides the above, an error value of its own, with and without a message.
ImplErrors == AppErrors \cup {{ErrAtom("NotFound", <<110>>)}, {ErrAtom("NotFound", <<>>)}}

\* What an implementation that returns does with a call.
Returns(m) == {[kind |-> "return", r |-> r, err |-> e] : r \in Results(m), e \in ImplErrors}

\* The reply a server stub handler writes for a result and an error.
ReplyOf(m, r, e) == EncodeResult(m, r) \o Encoder_Error(e)

Take(b, k) == SubSeq(b, 1, k)

\* What stub.Run does: it returns an error, it raises a fault, or it returns
\* reply bytes: a reply as a handler writes it ("valid"), one cut short
\* ("truncated"), one followed by more bytes ("trailing"), or one with a
\* header no encoder writes ("header": a length below -1 in place of the
\* result, or an error slot whose presence byte is neither 0 nor 1).
Outcome(k, e, b, c) == [kind |-> k, err |-> e, reply |-> b, class |-> c]

TransportOutcomes(m) ==
    {Outcome("error", e, <<>>, "none") : e \in TransportErrors}
        \cup {Outcome("panic", Nil, <<>>, "none")}
        \cup UNION {
               {Outcome("reply", Nil, ReplyOf(m, r, e), "valid"),
                Outcome("reply", Nil, ReplyOf(m, r, e) \o <<0>>, "trailing"),
                Outcome("reply", Nil, EncodeResult(m, r) \o <<2>>, "header")}
               : r \in Results(m), e \in AppErrors}
        \cup UNION {{Outcome("reply", Nil, Take(ReplyOf(m, r, AppError(<<101>>)), k),
                              "truncated") :
                         k \in 0..(Len(ReplyOf(m, r, AppError(<<101>>))) - 1)} :
                      r \in Richest(m)}
        \cup {Outcome("reply", Nil, Encoder_Len(-2) \o <<0>>, "header")}

\* The values handed to the codec by themselves.  A sequence has up to
\* MaxSliceLen elements; a nil sequence and an empty one are both among them.
SeqsUpTo(S, n) == UNION {[1..k -> S] : k \in 0..n}

WireStrings == {<<>>, <<97>>, <<98, 98>>}

StringSlices == {NilSlice} \cup {Slice(q) : q \in SeqsUpTo(WireStrings, MaxSliceLen)}

WireProducts ==
    {[ID |-> i, Name |-> <<98>>, Description |-> d, Picture |-> <<99, 99>>,
      PriceUSD |-> p, Categories |-> c] :
        i \in {<<>>, <<97>>}, d \in {<<>>, <<100>>}, p \in Moneys, c \in StringSlices}

ProductSlices ==
    {NilSlice} \cup
    {Slice(q) : q \in SeqsUpTo({ZeroProduct, Product1,
                                 [Product1 EXCEPT !.Categories = Slice(<<>>)]}, MaxSliceLen)}

WireTypes == {"Product", "[]string", "[]Product"}

WireValues(t) ==
    CASE t = "Product" -> WireProducts
      [] t = "[]string" -> StringSlices
      [] OTHER -> ProductSlices

\* The writes of a value of type t on the encoder.
WireEncode(t, v) ==
    CASE t = "Product" -> Product_WeaverMarshal(v)
      [] t = "[]string" -> serviceweaver_enc_slice_string_4af10117(v)
      [] OTHER -> serviceweaver_enc_slice_Product_3e9d9e07(v)

\* The reads of a value of type t on a decoder over b; a Product is read into
\* the Product x.
WireDecode(t, x, b) ==
    CASE t = "Product" -> Product_WeaverUnmarshal(x, b)
      [] t = "[]string" -> serviceweaver_dec_slice_string_4af10117(b)
      [] OTHER -> serviceweaver_dec_slice_Product_3e9d9e07(b)

\* ------------------------------------------------------------------ transaction history

\* i.Config().LocalRoutingNum, and the routing number of another bank.
LocalRoutingNum == "local"

AccountNums == {"1", "2"}

\* A model.Transaction, by the fields ProcessTransaction reads and an amount.
Transaction(from, fromRouting, to, toRouting, amount) ==
    [FromAccountNum |-> from, FromRoutingNum |-> fromRouting,
     ToAccountNum |-> to, ToRoutingNum |-> toRouting, Amount |-> amount]

\* The transactions the ledger reader hands to ProcessTransaction.
Transactions ==
    {Transaction(f, fr, t, tr, 1) :
        f \in AccountNums, fr \in {LocalRoutingNum, "other"},
        t \in AccountNums, tr \in {LocalRoutingNum, "other"}}

\* An entry of i.txnCache.c: absent, or the history of an account, newest
\* transaction first.
Absent == [present |-> FALSE, txns |-> <<>>]
Cached(txns) == [present |-> TRUE, txns |-> txns]

\* The histories the loader of the cache returns for an account: the newest
\* transactions of the repository, newest first; the first one may be one the
\* ledger reader hands to ProcessTransaction as well.
LoadedHistories ==
    {[j \in 1..k |-> Transaction("1", LocalRoutingNum, "2", LocalRoutingNum, j)] :
        k \in 0..MaxLoaded}

\* What i.txnCache.c.Get does for an account GetIfPresent has just found: it
\* returns the entry ("hit"), or the entry is gone meanwhile and the cache
\* loads it again, which gives a history ("load") or an error ("error").
GetOutcomes ==
    {[kind |-> "hit", txns |-> <<>>], [kind |-> "error", txns |-> <<>>]}
        \cup {[kind |-> "load", txns |-> y] : y \in LoadedHistories}

NoTransaction == Transaction("", "", "", "", 0)

\* The impl after Init, with history_limit l: nothing cached.
Fresh(l) ==
    [limit |-> l, cache |-> [a \in AccountNums |-> Absent], tx |-> NoTransaction,
     before |-> [a \in AccountNums |-> Absent], log |-> <<>>, n |-> 0, dead |-> FALSE]

\* One call of processTransactionForAcct as the log keeps it: the account,
\* what Get returned (err, got) and what was Put, if anything.
Logged(a, err, got, put) == [acct |-> a, err |-> err, got |-> got, put |-> put]

\* processTransactionForAcct from line 74 on, with txns the transaction
\* before what Get returned: the slice expression txns[:HistoryLimit]
\* raises a fault when HistoryLimit is negative, and nothing is Put.
DropOld(h, a, got, txns) ==
    IF Len(txns) > h.limit
    THEN IF h.limit < 0
         THEN [h EXCEPT !.dead = TRUE, !.log = Append(@, Logged(a, FALSE, got, Absent))]
         ELSE [h EXCEPT !.cache[a] = Cached(Take(txns, h.limit)),
                        !.log = Append(@, Logged(a, FALSE, got, Cached(Take(txns, h.limit))))]
    ELSE [h EXCEPT !.cache[a] = Cached(txns),
                   !.log = Append(@, Logged(a, FALSE, got, Cached(txns)))]

\* The same with nothing dropped.
processTransactionForAcct_KeepsAll(h, accountID, transaction, get) ==
    [h EXCEPT !.cache[accountID] = Cached(<<transaction>> \o @.txns),
              !.log = Append(@, Logged(accountID, FALSE, h.cache[accountID].txns,
                                       Cached(<<transaction>> \o h.cache[accountID].txns)))]

\* impl.processTransactionForAcct; get is what i.txnCache.c.Get does.
processTransactionForAcct(h, accountID, transaction, get) ==
    CASE get.kind = "error" ->
            [h EXCEPT !.cache[accountID] = Absent,
                      !.log = Append(@, Logged(accountID, TRUE, <<>>, Absent))]
      [] get.kind = "load" ->
            DropOld([h EXCEPT !.cache[accountID] = Cached(get.txns)], accountID,
                    get.txns, <<transaction>> \o get.txns)
      [] OTHER ->
            DropOld(h, accountID, h.cache[accountID].txns,
                    <<transaction>> \o h.cache[accountID].txns)

\* The same without the look for the account in the cache: Get loads the
\* history of an account that is not cached.
OneSide_Unguarded(h, id, routingNum, transaction, get) ==
    IF h.dead \/ routingNum # LocalRoutingNum THEN h
    ELSE processTransactionForAcct(h, id, transaction,
                                   IF h.cache[id].present THEN get
                                   ELSE [kind |-> "load", txns |-> <<>>])

\* One of the two if statements of ProcessTransaction, for the account id
\* with routing number routingNum.  Nothing runs after a fault.
OneSide(h, id, routingNum, transaction, get) ==
    IF h.dead THEN h
    ELSE IF routingNum = LocalRoutingNum /\ h.cache[id].present
    THEN processTransactionForAcct(h, id, transaction, get)
    ELSE h

\* What i.txnCache.c.Get may do on one side of ProcessTransaction: it is
\* called only where OneSide calls processTransactionForAcct.
GetsOf(h, id, routingNum) ==
    IF ~h.dead /\ routingNum = LocalRoutingNum /\ h.cache[id].present
    THEN GetOutcomes
    ELSE {[kind |-> "hit", txns |-> <<>>]}

\* impl.ProcessTransaction on the impl h: the from side, then the to side;
\* getFrom and getTo are what i.txnCache.c.Get does on each.
ProcessTransaction(h, transaction, getFrom, getTo) ==
    OneSide(OneSide([h EXCEPT !.tx = transaction, !.before = h.cache, !.log = <<>>,
                              !.n = @ + 1],
                    transaction.FromAccountNum, transaction.FromRoutingNum, transaction,
                    getFrom),
            transaction.ToAccountNum, transaction.ToRoutingNum, transaction, getTo)

\* ------------------------------------------------------------------ state

VARIABLES
    calls,      \* the client stub calls suspended in stub.Run: a bag of calls
    last,       \* the call through a stub that ended last
    metrics,    \* the MethodMetrics of each method of the client stubs
    started,    \* calls begun so far
    stats,      \* per method, of the client stub calls: how many returned,
                \* returned an error, invoked the transport, got a reply,
                \* were left by a fault (escaped)
    srv,        \* the last dispatch of a server stub: the interface, the
                \* name looked up, the handler found (fn), the argument
                \* bytes, what the implementation does, and what the
                \* handler did (h)
    dispatched, \* dispatches so far
    wire,       \* the last use of the codec: the type of the value, the value
                \* written, the bytes the encoder holds, and what the decoder
                \* read from them (got), once it has
    th          \* transactionhistory.impl: its history_limit, its cache of
                \* account histories, and of the ProcessTransaction call
                \* that ended last, if nothing touched the cache since: the
                \* transaction, the cache as the call found it (before) and
                \* its calls of processTransactionForAcct (log)

vars == <<calls, last, metrics, started, stats, srv, dispatched, wire, th>>

NoStats == [completed |-> 0, failed |-> 0, reached |-> 0, replied |-> 0, escaped |-> 0]

NoDispatch ==
    [iface |-> "none", name |-> "none", fn |-> "nil", args |-> <<>>,
     out |-> [kind |-> "none", r |-> NilSlice, err |-> Nil], encFaults |-> FALSE,
     h |-> Handled(NilSlice, ServerDeferred(Nil, NoPanic), <<>>)]

\* Nothing written yet.
NoWire ==
    [type |-> "none", value |-> NilSlice, data |-> <<>>, after |-> <<>>, read |-> FALSE,
     got |-> Fault(NilSlice)]

Init ==
    /\ calls = EmptyBag
    /\ last = NoCall
    /\ metrics = [m \in Methods |-> NoMetrics]
    /\ started = 0
    /\ stats = [m \in Methods |-> NoStats]
    /\ srv = NoDispatch
    /\ dispatched = 0
    /\ wire = NoWire
    /\ th = Fresh(MaxHistoryLimit)

\* The calls of a client stub that have returned, counted as they return.
Returned(st, f) ==
    [st EXCEPT !.completed = @ + (IF f.pc = "returned" THEN 1 ELSE 0),
               !.failed = @ + (IF f.pc = "returned" /\ f.err # Nil THEN 1 ELSE 0),
               !.escaped = @ + (IF f.pc = "panicked" THEN 1 ELSE 0)]

\* The transport invocations that gave a reply, counted as they return.
Replied(st, out) == [st EXCEPT !.replied = @ + (IF out.kind = "reply" THEN 1 ELSE 0)]

\* A call of client stub method m begins and runs until it is suspended in
\* stub.Run, or until it returns when encoding the arguments faults.
ClientCall(m, args, traced, encFaults) ==
    \E f \in {ClientInvoke(ClientEntry(m, args, traced), encFaults)} :
        /\ started < MaxCalls
        /\ last = NoCall
        /\ BagCardinality(calls) < MaxInFlight
        /\ started' = started + 1
        /\ metrics' = [metrics EXCEPT ![m] = ApplyOps(@, f.ops)]
        /\ IF f.pc = "inflight"
           THEN /\ calls' = calls (+) SetToBag({f})
                /\ stats' = [stats EXCEPT ![m].reached = @ + 1]
                /\ last' = last
           ELSE /\ last' = f
                /\ stats' = [stats EXCEPT ![m] = Returned(@, f)]
                /\ calls' = calls
        /\ UNCHANGED <<srv, dispatched, wire, th>>

\* stub.Run returns to the suspended call c, which runs to its return.
TransportReturn(c, out) ==
    \E f \in {ClientResume(c, out)} :
        /\ BagIn(c, calls)
        /\ last = NoCall
        /\ calls' = calls (-) SetToBag({c})
        /\ last' = [f EXCEPT !.got = out]
        /\ metrics' = [metrics EXCEPT ![f.method] = ApplyOps(@, Drop(f.ops, Len(c.ops)))]
        /\ stats' = [stats EXCEPT ![f.method] = Replied(Returned(@, f), out)]
        /\ UNCHANGED <<started, srv, dispatched, wire, th>>

\* A call of local stub method m, from entry to return.
LocalCall(m, args, traced, out) ==
    \E f \in {LocalStub(m, args, traced, out)} :
        /\ started < MaxCalls
        /\ last = NoCall
        /\ started' = started + 1
        /\ last' = f
        /\ metrics' = [metrics EXCEPT ![m] = ApplyOps(@, f.ops)]
        /\ UNCHANGED <<calls, stats, srv, dispatched, wire, th>>

\* The caller takes what the call that ended last gave it.
Collect ==
    /\ last # NoCall
    /\ last' = NoCall
    /\ UNCHANGED <<calls, metrics, started, stats, srv, dispatched, wire, th>>

\* The transport of a server looks a method name up in the server stub of
\* interface i and, when there is a handler, calls it with argument bytes.
MethodNames == Methods \cup {"getProduct", "Unknown", ""}

\* The argument bytes a server stub is handed: those a client stub writes,
\* whole or cut short.
ArgBytes(i) ==
    UNION {UNION {{Take(EncodeArgs(m, a), k) : k \in 0..Len(EncodeArgs(m, a))} :
                    a \in ArgTuples(m)} : m \in Range(MethodList(i))}

Dispatch(i, name, args, out, encFaults) ==
    LET fn == GetStubFn(i, name)
    IN  /\ dispatched < MaxDispatch
        /\ srv = NoDispatch
        /\ dispatched' = dispatched + 1
        /\ srv' = [iface |-> i, name |-> name, fn |-> fn, args |-> args,
                   out |-> out,
                   encFaults |-> encFaults,
                   h |-> IF fn = "nil" THEN Handled(NilSlice, ServerDeferred(Nil, NoPanic), <<>>)
                         ELSE ServerHandler(fn, args, out, encFaults)]
        /\ UNCHANGED <<calls, last, metrics, started, stats, wire, th>>

\* The transport hands the caller of the handler what the handler returned.
Deliver ==
    /\ srv # NoDispatch
    /\ srv' = NoDispatch
    /\ UNCHANGED <<calls, last, metrics, started, stats, dispatched, wire, th>>

\* A transport that carries the suspended call c to the server stub of its
\* interface and back: it looks up the method of the ordinal it was given,
\* hands the handler the argument bytes it was given, and returns the
\* handler's reply bytes to c, which runs to its return.  out is what the
\* implementation does with the call.
Loopback(c, out) ==
    \E i \in {InterfaceOf(c.method)} :
       \E fn \in {GetStubFn(i, MethodList(i)[c.run[1].ordinal + 1])} :
          \E h \in {ServerHandler(fn, c.run[1].args.elems, out, FALSE)} :
             \E o \in {Outcome("reply", Nil, h.res.elems, "valid")} :
                \E f \in {ClientResume(c, o)} :
                   /\ BagIn(c, calls)
                   /\ last = NoCall
                   /\ srv = NoDispatch
                   /\ h.err = Nil
                   /\ h.panic = NoPanic
                   /\ calls' = calls (-) SetToBag({c})
                   /\ srv' = [iface |-> i, name |-> fn, fn |-> fn,
                              args |-> c.run[1].args.elems, out |-> out,
                              encFaults |-> FALSE, h |-> h]
                   /\ last' = [f EXCEPT !.got = o, !.impl = h.impl]
                   /\ metrics' = [metrics EXCEPT
                                     ![f.method] = ApplyOps(@, Drop(f.ops, Len(c.ops)))]
                   /\ stats' = [stats EXCEPT ![f.method] = Replied(Returned(@, f), o)]
                   /\ UNCHANGED <<started, dispatched, wire, th>>

\* A value v of type t is written on a fresh encoder, and then the bytes
\* after (what a stub writes after it).
Marshal(t, v, after) ==
    /\ wire.type = "none" \/ wire.read
    /\ wire' = [type |-> t, value |-> v, data |-> WireEncode(t, v) \o after,
                after |-> after, read |-> FALSE, got |-> Fault(NilSlice)]
    /\ UNCHANGED <<calls, last, metrics, started, stats, srv, dispatched, th>>

\* A decoder over the bytes written reads a value of the same type; a
\* Product is read into the Product x.
Unmarshal(x) ==
    /\ wire.type # "none"
    /\ ~wire.read
    /\ wire' = [wire EXCEPT !.read = TRUE, !.got = WireDecode(wire.type, x, wire.data)]
    /\ UNCHANGED <<calls, last, metrics, started, stats, srv, dispatched, th>>

\* The ledger reader hands a transaction to ProcessTransaction.
Process(transaction, getFrom, getTo) ==
    /\ ~th.dead
    /\ th.n < MaxProcessed
    /\ th' = ProcessTransaction(th, transaction, getFrom, getTo)
    /\ UNCHANGED <<calls, last, metrics, started, stats, srv, dispatched, wire>>

\* impl.GetTransactions of an account that is not cached (for a cached one
\* i.txnCache.c.Get returns the entry and nothing changes): the cache loads
\* its history, which gives a history the cache then holds, or an error.
GetTransactions(accountID, load) ==
    /\ ~th.dead
    /\ ~th.cache[accountID].present
    /\ th' = [th EXCEPT !.cache[accountID] =
                            IF load.kind = "error" THEN @ ELSE Cached(load.txns),
                        !.tx = NoTransaction,
                        !.before = Fresh(th.limit).before,
                        !.log = <<>>]
    /\ UNCHANGED <<calls, last, metrics, started, stats, srv, dispatched, wire>>

\* The cache drops the entry of an account: it is over cache_size, or the
\* entry is older than cache_minutes.
Expire(accountID) ==
    /\ ~th.dead
    /\ th.cache[accountID].present
    /\ th' = [th EXCEPT !.cache[accountID] = Absent,
                        !.tx = NoTransaction,
                        !.before = Fresh(th.limit).before,
                        !.log = <<>>]
    /\ UNCHANGED <<calls, last, metrics, started, stats, srv, dispatched, wire>>

\* The inputs of the actions, as tables by method and by interface.
ImplOutcomesOf == [m \in Methods |-> ImplOutcomes(m)]
TransportOutcomesOf ==
    [m \in Methods |->
        [kind \in {"error", "reply", "panic"} |->
            {o \in TransportOutcomes(m) : o.kind = kind}]]
ArgBytesOf == [i \in Interfaces |-> ArgBytes(i)]

\* stub.Run of the suspended call c ends in one of its three ways.
TransportReturns(c, kind) ==
    \E out \in TransportOutcomesOf[c.method][kind] : TransportReturn(c, out)

\* A call begins only once the caller has taken the results of the last one.
CanCall == started < MaxCalls /\ last = NoCall

Next ==
    \/ /\ CanCall
       /\ BagCardinality(calls) < MaxInFlight
       /\ \E m \in Methods, traced \in BOOLEAN, encFaults \in BOOLEAN :
             \E args \in CallArgs(m) :
                /\ encFaults => HasArgs(m)
                /\ ClientCall(m, args, traced, encFaults)
    \/ /\ last = NoCall
       /\ \E c \in BagToSet(calls) :
             \/ TransportReturns(c, "error")
             \/ TransportReturns(c, "reply")
             \/ TransportReturns(c, "panic")
    \/ /\ CanCall
       /\ \E m \in Methods, traced \in BOOLEAN :
             \E args \in CallArgs(m), out \in ImplOutcomesOf[m] :
                LocalCall(m, args, traced, out)
    \/ Collect

\* The stubs on the calling side.
Spec == Init /\ [][Next]_vars

NextServer ==
    \/ /\ srv = NoDispatch
       /\ dispatched < MaxDispatch
       /\ \E i \in Interfaces, name \in MethodNames, encFaults \in BOOLEAN :
             \E args \in ArgBytesOf[i] :
                \E out \in ImplOutcomesOf[IF GetStubFn(i, name) = "nil"
                                           THEN "ListProducts" ELSE GetStubFn(i, name)] :
                   Dispatch(i, name, args, out, encFaults)
    \/ Deliver

\* The server stubs.
SpecServer == Init /\ [][NextServer]_vars

NextLoop ==
    \/ /\ CanCall
       /\ srv = NoDispatch
       /\ BagCardinality(calls) < MaxInFlight
       /\ \E m \in Methods, traced \in BOOLEAN :
             \E args \in ArgTuples(m) : ClientCall(m, args, traced, FALSE)
    \/ /\ last = NoCall
       /\ srv = NoDispatch
       /\ \E c \in BagToSet(calls) : \E out \in Returns(c.method) : Loopback(c, out)
    \/ Collect
    \/ Deliver

\* A client stub and a server stub joined by a transport that loses nothing.
SpecLoop == Init /\ [][NextLoop]_vars

NextCodec ==
    \/ /\ wire.type = "none" \/ wire.read
       /\ \E t \in WireTypes, after \in {<<>>, <<1>>} :
             \E v \in WireValues(t) : Marshal(t, v, after)
    \/ \E x \in {ZeroProduct, Product1} : Unmarshal(x)

\* The codec by itself.
SpecCodec == Init /\ [][NextCodec]_vars

\* The impl after Init under any history_limit: i.Config().HistoryLimit is an
\* int of the configuration file.
InitHistory ==
    /\ calls = EmptyBag
    /\ last = NoCall
    /\ metrics = [m \in Methods |-> NoMetrics]
    /\ started = 0
    /\ stats = [m \in Methods |-> NoStats]
    /\ srv = NoDispatch
    /\ dispatched = 0
    /\ wire = NoWire
    /\ \E l \in -1..MaxHistoryLimit : th = Fresh(l)

NextHistory ==
    \/ /\ ~th.dead
       /\ th.n < MaxProcessed
       /\ \E transaction \in Transactions :
             \E getFrom \in GetsOf(th, transaction.FromAccountNum,
                                    transaction.FromRoutingNum) :
                \E getTo \in GetsOf(OneSide(th, transaction.FromAccountNum,
                                             transaction.FromRoutingNum, transaction,
                                             getFrom),
                                     transaction.ToAccountNum, transaction.ToRoutingNum) :
                   Process(transaction, getFrom, getTo)
    \/ \E accountID \in AccountNums, load \in GetOutcomes \ {[kind |-> "hit", txns |-> <<>>]} :
          GetTransactions(accountID, load)
    \/ \E accountID \in AccountNums : Expire(accountID)

\* The cached account histories of transactionhistory.
SpecHistory == InitHistory /\ [][NextHistory]_vars

\* ------------------------------------------------------------------ claims

RECURSIVE Times(_, _)
\* How many times the instrument call named o occurs in ops.
Times(ops, o) ==
    IF ops = <<>> THEN 0
    ELSE (IF Head(ops).op = o THEN 1 ELSE 0) + Times(Tail(ops), o)

SpanOps == {"span.Start", "span.RecordError", "span.SetStatus", "span.End"}

\* The span operations among ops.
SpanTimes(ops) ==
    Times(ops, "span.Start") + Times(ops, "span.RecordError")
        + Times(ops, "span.SetStatus") + Times(ops, "span.End")

\* The client stub call that ended last, if the last call was one.
ClientEnded == last.stub = "client"
\* It ended after stub.Run returned the error of a transport failure.
TransportFailed == ClientEnded /\ last.got.kind = "error"

\* The suspended calls of method m.
InFlight(m) == BagCardinality([c \in {d \in BagToSet(calls) : d.method = m} |-> calls[c]])

IsPrefix(p, b) == Len(p) <= Len(b) /\ SubSeq(b, 1, Len(p)) = p

\* C1: when stub.Run returns an error e, the client stub call returns a
\* non-nil error that holds both RemoteCallError and e, and the zero value of
\* the result type: no reply is decoded.
C1_TransportErrorWrapped ==
    TransportFailed =>
        /\ last.pc = "returned"
        /\ last.err # Nil
        /\ errors_Is(last.err, RemoteCallError)
        /\ errors_Is(last.err, last.got.err)
        /\ last.r0 = ZeroResult(last.method)
        /\ Times(last.ops, "BytesReply.Put") = 0

C1_Witness ==
    /\ TransportFailed
    /\ last.method = "Convert"
    /\ last.got.err = ConnRefused

\* C2: a client stub call under a valid parent trace whose transport
\* invocation fails (a canceled or expired context included) increments the
\* error counter once, ends its span once and records latency once, and
\* returns.
C2_FailedCallCompletesInstruments ==
    (TransportFailed /\ last.traced) =>
        /\ last.pc = "returned"
        /\ Times(last.ops, "ErrorCount.Add") = 1
        /\ Times(last.ops, "span.End") = 1
        /\ Times(last.ops, "Latency.Put") = 1
        /\ last.span = "child"

C2_Witness ==
    /\ TransportFailed
    /\ last.traced
    /\ last.got.err = CtxCanceled
    /\ last.method = "GetProduct"

\* C3: of the calls of a method through a client stub, the invocation counter
\* counts those begun: the N that returned, once none is suspended and none
\* was left by a fault that was not recovered.  The error counter counts
\* those that returned a non-nil error; no call adds to the error counter
\* twice.
C3_CountersMatchCalls ==
    /\ \A m \in Methods :
          /\ metrics[m].Count = stats[m].completed + InFlight(m) + stats[m].escaped
          /\ metrics[m].ErrorCount = stats[m].failed
    /\ ClientEnded => Times(last.ops, "ErrorCount.Add") <= 1
    /\ \A c \in BagToSet(calls) : c.pc = "inflight" /\ Times(c.ops, "ErrorCount.Add") = 0

C3_Witness ==
    \E m \in Methods :
       /\ InFlight(m) = 0
       /\ stats[m].escaped = 0
       /\ stats[m].completed = 2
       /\ stats[m].failed = 1
       /\ metrics[m].Count = 2
       /\ metrics[m].ErrorCount = 1

\* C4 as claimed: once N calls of a method have returned and none is
\* suspended, its latency, request-size and reply-size distributions hold N
\* samples each.  (Stated of the calls whose arguments the encoder took, so
\* that all of them invoked the transport.)
C4_AllDistributionsHoldN ==
    \A m \in Methods :
       (InFlight(m) = 0 /\ stats[m].reached = stats[m].completed) =>
          /\ metrics[m].Latency = stats[m].completed
          /\ metrics[m].BytesRequest = stats[m].completed
          /\ metrics[m].BytesReply = stats[m].completed

\* C4 as amended: the latency distribution holds one sample per returned
\* call, the request-size distribution one per call that invoked the
\* transport, and the reply-size distribution one per transport invocation
\* that returned a reply.
C4_DistributionsMatchPath ==
    \A m \in Methods :
       /\ metrics[m].Latency = stats[m].completed
       /\ metrics[m].BytesRequest = stats[m].reached
       /\ metrics[m].BytesReply = stats[m].replied
       /\ stats[m].replied <= stats[m].reached
       /\ stats[m].reached <= stats[m].completed + InFlight(m) + stats[m].escaped

C4_Witness ==
    \E m \in Methods :
       /\ InFlight(m) = 0
       /\ stats[m].completed = 2
       /\ stats[m].reached = 1
       /\ stats[m].replied = 0
       /\ metrics[m].Latency = 2

\* C5: a call through a local or client stub starts one span and ends one
\* span under a valid parent trace, and makes no span operation at all
\* without one.  (Stated of the local stub calls and of the client stub calls
\* that invoked the transport and returned.)
C5_SpanOpsOnlyUnderTrace ==
    (last.stub = "local" \/ (ClientEnded /\ last.run # <<>> /\ last.pc = "returned")) =>
        IF last.traced
        THEN Times(last.ops, "span.Start") = 1 /\ Times(last.ops, "span.End") = 1
        ELSE SpanTimes(last.ops) = 0

\* A server stub handler was found and called in the last dispatch.
HandlerRan == srv.fn # "nil"
\* Its argument bytes are an encoding of its arguments cut short.
ArgsTruncated ==
    \E a \in ArgTuples(srv.fn) :
       Len(srv.args) < Len(EncodeArgs(srv.fn, a)) /\ IsPrefix(srv.args, EncodeArgs(srv.fn, a))
\* It decoded its arguments and called the implementation.
ImplCalled == srv.h.impl # <<>>

C8_GetStubFnTotal ==
    srv.iface # "none" =>
        IF srv.name \in Range(MethodList(srv.iface))
        THEN srv.fn = srv.name
        ELSE /\ srv.fn = "nil"
             /\ srv.h.impl = <<>>
             /\ srv.h.panic = NoPanic
             /\ srv.h.err = Nil

C8_Witness ==
    /\ srv.iface = ProductCatalog
    /\ srv.name = "getProduct"
    /\ srv.fn = "nil"

\* The classes of a failed client stub call, by what happened to it.
Failed == ClientEnded /\ last.pc = "returned" /\ last.err # Nil
\* The call never reached or never came back from the remote side.
FailedInTransport == Failed /\ last.got.kind \in {"none", "error"}
\* The reply could not be understood.
FailedInDecode == Failed /\ last.got.kind = "reply" /\ last.got.class \in {"truncated", "header"}
\* The remote side ran and declined.
FailedInApplication ==
    Failed /\ last.got.kind = "reply" /\ last.got.class \in {"valid", "trailing"}

\* The classes of an error, by what a caller finds in it.
IsTransportError(e) == errors_Is(e, RemoteCallError)
IsDecodeError(e) == \E a \in e : a.kind = "decode"
IsApplicationError(e) == \E a \in e : a.kind = "app"

ValidReplies(m) == {ReplyOf(m, r, e) : r \in Results(m), e \in AppErrors}
ValidRepliesOf == [m \in Methods |-> ValidReplies(m)]

C11_DecodeOfEncode ==
    wire.read =>
        /\ ~wire.got.fault
        /\ wire.got.val = wire.value
        /\ wire.got.rest = wire.after
        /\ wire.type \in {"[]string", "[]Product"} =>
              /\ wire.value.nil <=> Take(wire.data, 4) = Encoder_Len(-1)
              /\ wire.value.nil <=> wire.got.val.nil
              /\ wire.value = Slice(<<>>) =>
                    (Take(wire.data, 4) = Encoder_Len(0) /\ wire.got.val # NilSlice)
        /\ wire.type = "Product" => (wire.value.Categories.nil <=> wire.got.val.Categories.nil)

C11_Witness ==
    /\ wire.read
    /\ wire.type = "Product"
    /\ wire.value.Categories = Slice(<<>>)
    /\ wire.value.PriceUSD.Nanos = -1
    /\ wire.got.val = wire.value
    /\ wire.after # <<>>

\* A client stub call went through the server stub and back, and neither the
\* caller nor the transport has taken its results yet.
Looped == ClientEnded /\ srv.fn # "nil"

\* The call f through the client stub and the same call l through the local
\* stub gave their callers the same.
SameOutcome(f, l) ==
    /\ f.pc = "returned"
    /\ l.pc = "returned"
    /\ f.impl = l.impl
    /\ f.r0 = l.r0
    /\ f.err = Nil <=> l.err = Nil
    /\ l.err # Nil => ErrorMsg(f.err) = ErrorMsg(l.err)

\* C12: through a transport that hands the argument bytes to the handler of
\* the same method and the reply bytes back unchanged, a client stub call
\* gives what the local stub gives for the same call of the implementation:
\* the implementation gets the caller's arguments, the result is the
\* implementation's, and the error is nil exactly when the implementation's
\* is, and has its message otherwise.
C12_RemoteAgreesWithLocal ==
    Looped =>
        /\ srv.fn = last.method
        /\ srv.h.impl = <<last.args>>
        /\ SameOutcome(last, LocalStub(last.method, last.args, last.traced, srv.out))

C12_Witness ==
    /\ Looped
    /\ last.method = "Convert"
    /\ last.args[1] # ZeroMoney
    /\ last.r0 # ZeroMoney
    /\ srv.out.err = {ErrAtom("NotFound", <<110>>)}
    /\ last.err = AppError(<<110>>)

\* The encoder raised a fault on the arguments of the client stub call that
\* ended last: it never invoked the transport.
EncodeFaulted == ClientEnded /\ last.run = <<>>
\* stub.Run raised a fault.
TransportFaulted == ClientEnded /\ last.got.kind = "panic"

\* The decoder raises a fault on the reply bytes b of method m, in the result
\* or in the error slot.
ReplyFaults(m, b) ==
    LET Slot(d) == d.fault \/ ReadErrorSlot(d.rest).fault
    IN  Slot(DecodeResult(m, ZeroResult(m), b))

DecodeFaulted == ClientEnded /\ last.got.kind = "reply" /\ ReplyFaults(last.method, last.got.reply)

\* The fault did not leave the call: it returned an error that holds
\* RemoteCallError, after counting the error, ending the span and recording
\* the latency.
Recovered ==
    /\ last.pc = "returned"
    /\ last.panic = NoPanic
    /\ last.err # Nil
    /\ errors_Is(last.err, RemoteCallError)
    /\ Times(last.ops, "ErrorCount.Add") = 1
    /\ Times(last.ops, "span.End") = 1
    /\ Times(last.ops, "Latency.Put") = 1

C14_ApplicationErrorInBand ==
    HandlerRan =>
        /\ (ImplCalled /\ srv.out.kind = "return" /\ ~srv.encFaults) =>
              /\ srv.h.err = Nil
              /\ srv.h.panic = NoPanic
              /\ ~srv.h.res.nil
              /\ srv.h.res.elems = EncodeResult(srv.fn, srv.out.r) \o Encoder_Error(srv.out.err)
              /\ Decoder_Error(Drop(srv.h.res.elems, Len(EncodeResult(srv.fn, srv.out.r)))).val
                    = srv.out.err
        /\ ~IsApplicationError(srv.h.err)
        /\ srv.h.err # Nil =>
              /\ \E k \in CodecFaults : srv.h.err = CatchPanics(Panic(k))
              /\ ~ImplCalled \/ (srv.out.kind = "return" /\ srv.encFaults)
              /\ srv.h.res = NilSlice

C14_Witness ==
    /\ HandlerRan
    /\ srv.fn = "ListProducts"
    /\ srv.out.kind = "return"
    /\ srv.out.r = Slice(<<Product1>>)
    /\ srv.out.err = AppError(<<101>>)
    /\ srv.h.err = Nil
    /\ ~srv.h.res.nil

\* C15: a client stub call invokes the transport at most once: a suspended
\* call has invoked it once, a call that ended has invoked it once unless the
\* encoder raised a fault on its arguments, and a call whose transport
\* invocation failed has returned after that one invocation.
C15_TransportInvokedOnce ==
    /\ \A c \in BagToSet(calls) : Len(c.run) = 1 /\ Times(c.ops, "stub.Run") = 1
    /\ ClientEnded =>
          /\ Len(last.run) = Times(last.ops, "stub.Run")
          /\ Len(last.run) = (IF last.got.kind = "none" THEN 0 ELSE 1)
          /\ TransportFailed => last.pc = "returned"
    /\ \A m \in Methods : stats[m].reached <= metrics[m].Count

C15_Witness ==
    /\ TransportFailed
    /\ last.got.err = CtxDeadline
    /\ last.method = "ListProducts"
    /\ Len(last.run) = 1
    /\ last.pc = "returned"

\* The call f is what a call with its method, arguments and trace gives by
\* itself, whatever other calls went on meanwhile: up to stub.Run when it is
\* suspended, and with what its own stub.Run gave it once it has ended.
OnItsOwn(f) ==
    IF f.pc = "inflight"
    THEN f = ClientInvoke(ClientEntry(f.method, f.args, f.traced), FALSE)
    ELSE f = [ClientResume(ClientInvoke(ClientEntry(f.method, f.args, f.traced), FALSE),
                           f.got) EXCEPT !.got = f.got]

Pos(ops, o) ==
    IF \E i \in DOMAIN ops : ops[i].op = o
    THEN CHOOSE i \in DOMAIN ops : ops[i].op = o /\ \A j \in 1..(i - 1) : ops[j].op # o
    ELSE 0

\* The order of the instrument calls of the client stub call f.
InOrder(f) ==
    /\ f.ops # <<>>
    /\ f.ops[1].op = "Count.Add"
    /\ Times(f.ops, "Count.Add") = 1
    /\ Pos(f.ops, "stub.Run") > 0 =>
          /\ Pos(f.ops, "BytesRequest.Put") = Pos(f.ops, "stub.Run") - 1
          /\ Times(f.ops, "BytesRequest.Put") = 1
    /\ Pos(f.ops, "BytesReply.Put") > 0 =>
          /\ f.got.kind = "reply"
          /\ Pos(f.ops, "stub.Run") > 0
          /\ Pos(f.ops, "stub.Run") < Pos(f.ops, "BytesReply.Put")
    /\ f.pc = "inflight" => f.ops[Len(f.ops)].op = "stub.Run"
    /\ f.pc = "returned" =>
          /\ Len(f.ops) >= 3
          /\ f.ops[Len(f.ops) - 1].op = "span.End"
          /\ f.ops[Len(f.ops)].op = "Latency.Put"
          /\ Times(f.ops, "span.End") = 1
          /\ Times(f.ops, "Latency.Put") = 1

\* C17: in every client stub call the invocation counter is incremented
\* first, the request size is put just before the transport is invoked, the
\* reply size is put only after the transport has returned a reply, and the
\* span end and then the latency record are the last two steps of a call
\* that returns, on whichever path it returns.
C17_InstrumentsInOrder ==
    /\ \A c \in BagToSet(calls) : InOrder(c)
    /\ ClientEnded => InOrder(last)

C17_Witness ==
    /\ ClientEnded
    /\ last.traced
    /\ last.pc = "returned"
    /\ last.got.kind = "reply"
    /\ last.err # Nil
    /\ Len(last.ops) = 10
    /\ Pos(last.ops, "BytesReply.Put") = 5

\* C18: a call through a local or a client stub under a valid parent trace
\* that returns has ended the span it started, once; when it returns a
\* non-nil error it has recorded that error on the span and set the failure
\* status with that error's message, both before ending the span, and when
\* it returns a nil error it has done neither.
C18_SpanMarkedIffError ==
    (last.stub \in {"local", "client"} /\ last.traced /\ last.pc = "returned") =>
        /\ last.span = "child"
        /\ Times(last.ops, "span.Start") = 1
        /\ Times(last.ops, "span.End") = 1
        /\ last.status = last.err
        /\ Times(last.ops, "span.RecordError") = (IF last.err # Nil THEN 1 ELSE 0)
        /\ Times(last.ops, "span.SetStatus") = (IF last.err # Nil THEN 1 ELSE 0)
        /\ last.err # Nil =>
              /\ Pos(last.ops, "span.Start") < Pos(last.ops, "span.RecordError")
              /\ Pos(last.ops, "span.RecordError") < Pos(last.ops, "span.SetStatus")
              /\ Pos(last.ops, "span.SetStatus") < Pos(last.ops, "span.End")

C18_Witness ==
    /\ last.stub = "local"
    /\ last.traced
    /\ last.pc = "returned"
    /\ last.method = "GetSupportedCurrencies"
    /\ last.err = AppError(<<101>>)
    /\ last.status = AppError(<<101>>)
    /\ last.ops = <<Ev("span.Start", 0), Ev("span.RecordError", 0), Ev("span.SetStatus", 0),
                    Ev("span.End", 0)>>

\* The place of method m in the method list of its interface, from 0.
PlaceOf(m) ==
    (CHOOSE k \in DOMAIN MethodList(InterfaceOf(m)) : MethodList(InterfaceOf(m))[k] = m) - 1

\* The client stub call f handed inv to stub.Run and put size as the request
\* size.
InvokedWith(f, inv, size) ==
    /\ inv.ordinal = PlaceOf(f.method)
    /\ \A m \in Range(MethodList(InterfaceOf(f.method))) \ {f.method} :
          Ordinal(m) # inv.ordinal
    /\ inv.shardKey = 0
    /\ IF HasArgs(f.method)
       THEN /\ ~inv.args.nil
            /\ inv.args.elems = EncodeArgs(f.method, f.args)
            /\ size = Len(inv.args.elems)
            /\ size > 0
       ELSE /\ inv.args = NilSlice
            /\ size = 0

\* Every invocation of the transport by f is such.
Invocations(f) ==
    f.run # <<>> =>
        /\ Len(f.run) = 1
        /\ InvokedWith(f, f.run[1], f.ops[Pos(f.ops, "BytesRequest.Put")].v)

\* C19: a client stub method hands the transport the ordinal that is its
\* place in the method list of its interface, which no other method of the
\* interface hands it, and shard key zero; a method without arguments hands
\* it no argument bytes and puts 0 as the request size, and a method with
\* arguments hands it the encoding of its arguments and puts its length.
C19_OrdinalShardKeyAndSize ==
    /\ \A c \in BagToSet(calls) : Invocations(c)
    /\ ClientEnded => Invocations(last)

C19_Witness ==
    /\ \E c \in BagToSet(calls) :
          /\ c.method = "SearchProducts"
          /\ c.args = << <<97>> >>
          /\ c.run = <<[ordinal |-> 2, args |-> Slice(<<1, 0, 0, 0, 97>>), shardKey |-> 0]>>
          /\ c.ops[Pos(c.ops, "BytesRequest.Put")].v = 5
    /\ \E c \in BagToSet(calls) :
          /\ c.method = "GetSupportedCurrencies"
          /\ c.run = <<[ordinal |-> 1, args |-> NilSlice, shardKey |-> 0]>>
          /\ c.ops[Pos(c.ops, "BytesRequest.Put")].v = 0

\* A call through a local stub is made in this step.
LocalStep == last = NoCall /\ last'.stub = "local"

\* C20: a call through a local stub calls the implementation once, with the
\* caller's arguments, and gives the caller the result and the error the
\* implementation returned; it invokes no transport, touches no instrument
\* but the span, and leaves every counter and distribution of every method
\* as it was.
C20_LocalStubIsTransparent ==
    [][LocalStep =>
          /\ metrics' = metrics
          /\ stats' = stats
          /\ calls' = calls
          /\ last'.impl = <<last'.args>>
          /\ last'.run = <<>>
          /\ \A k \in DOMAIN last'.ops : last'.ops[k].op \in SpanOps
          /\ \A out \in ImplOutcomesOf[last'.method] :
                LocalCall(last'.method, last'.args, last'.traced, out) =>
                   IF out.kind = "return"
                   THEN last'.pc = "returned" /\ last'.r0 = out.r /\ last'.err = out.err
                   ELSE last'.pc = "panicked" /\ last'.panic = Panic("impl")]_vars

C20_Witness ==
    /\ last.stub = "local"
    /\ last.method = "GetProduct"
    /\ last.pc = "returned"
    /\ last.impl = << << <<97>> >> >>
    /\ last.r0 = Product1
    /\ last.err = AppError(<<101>>)
    /\ metrics = [m \in Methods |-> NoMetrics]


\* C21: every history that a ProcessTransaction call has Put into the cache
\* has at most HistoryLimit elements; for a HistoryLimit of 1 or more its
\* first element is the transaction of the call, and the elements after it
\* are the history Get returned, in its order, less the ones at its tail that
\* do not fit; the history Get returned is the one the cache held or a loaded
\* one, and the cache holds what was Put until the next Put or error.
C21_UpdatedHistoryBounded ==
    \A k \in 1..Len(th.log) :
        LET e == th.log[k] IN
        e.put.present =>
            /\ Len(e.put.txns) <= th.limit
            /\ Len(e.put.txns) =
                  IF Len(e.got) + 1 <= th.limit THEN Len(e.got) + 1 ELSE th.limit
            /\ th.limit >= 1 => e.put.txns[1] = th.tx
            /\ \A j \in 2..Len(e.put.txns) : e.put.txns[j] = e.got[j - 1]
            /\ e.got \in {th.before[e.acct].txns} \cup LoadedHistories
                            \cup {th.log[j].put.txns : j \in 1..(k - 1)}
            /\ (\A j \in (k + 1)..Len(th.log) : th.log[j].acct # e.acct)
                  => th.cache[e.acct] = e.put

\* A call under a HistoryLimit of 2 found a history of two transactions, put
\* its transaction in front and dropped the older of the two.
C21_Witness ==
    /\ th.limit = 2
    /\ \E k \in 1..Len(th.log) :
          /\ th.log[k].put.present
          /\ Len(th.log[k].got) = 2
          /\ th.log[k].got[1] # th.log[k].got[2]
          /\ th.log[k].put.txns = <<th.tx, th.log[k].got[1]>>
          /\ th.cache[th.log[k].acct] = th.log[k].put



\* C22: after a ProcessTransaction call, an account whose cache entry differs
\* from the one before the call is the from-account of the transaction with
\* FromRoutingNum local or its to-account with ToRoutingNum local, and it had
\* an entry before the call; an account without an entry before the call has
\* none after it.
C22_OnlyLocalCachedAccountsChange ==
    th.tx # NoTransaction =>
        \A a \in AccountNums :
            /\ th.cache[a] # th.before[a] =>
                  /\ th.before[a].present
                  /\ \/ a = th.tx.FromAccountNum /\ th.tx.FromRoutingNum = LocalRoutingNum
                     \/ a = th.tx.ToAccountNum /\ th.tx.ToRoutingNum = LocalRoutingNum
            /\ ~th.before[a].present => ~th.cache[a].present

\* A call with both routing numbers local whose from-account was cached and
\* whose to-account was not: the history of the from-account got the
\* transaction, and the to-account is still not cached.
C22_Witness ==
    /\ th.tx # NoTransaction
    /\ th.tx.FromRoutingNum = LocalRoutingNum
    /\ th.tx.ToRoutingNum = LocalRoutingNum
    /\ th.tx.FromAccountNum # th.tx.ToAccountNum
    /\ th.before[th.tx.FromAccountNum].present
    /\ th.cache[th.tx.FromAccountNum] =
          Cached(<<th.tx>> \o th.before[th.tx.FromAccountNum].txns)
    /\ ~th.before[th.tx.ToAccountNum].present
    /\ ~th.cache[th.tx.ToAccountNum].present



\* How many elements of the history txns are the transaction t.
Occurrences(txns, t) == Cardinality({j \in 1..Len(txns) : txns[j] = t})

\* C23: a history that a ProcessTransaction call has Put for an account holds
\* the transaction of the call at most once more than the history the call
\* found for that account; when the call Put twice for the account, the
\* second time on top of what it Put first, the history found is the one the
\* first Put was made from.
C23_AddedAtMostOnce ==
    \A k \in 1..Len(th.log) :
        LET found == IF /\ k = 2
                        /\ th.log[1].acct = th.log[2].acct
                        /\ th.log[1].put.present
                        /\ th.log[2].got = th.log[1].put.txns
                     THEN th.log[1].got
                     ELSE th.log[k].got
        IN  th.log[k].put.present =>
                Occurrences(th.log[k].put.txns, th.tx) <= Occurrences(found, th.tx) + 1


====
